---- MODULE Spec2Model ----
(***************************************************************************)
(* Reaction rate handles (ReactionRate.cpp) and their link to a batched    *)
(* rate evaluator.  One rate handle `h` of one of the four variants        *)
(* (ArrheniusRate, PlogRate, ChebyshevRate3, CustomFunc1Rate) is           *)
(* configured, mutated, validated, serialized and linked to evaluators     *)
(* `ev`, each of which owns copies of rates at dense indices.              *)
(*                                                                         *)
(* Doubles are modelled as integers; NaN is a distinguished value for      *)
(* which every ordering comparison is false.  Unit factors are kept as     *)
(* decimal exponents, activation energies as multiples of GasConstant, so  *)
(* that every conversion of the model is exact.                            *)
(***************************************************************************)
EXTENDS Integers, Sequences, FiniteSets, TLC

VARIABLES h, ev, call, lastLink

vars == <<h, ev, call, lastLink>>

(* ------------------------------ bounds --------------------------------- *)

\* evaluators that exist
NumEvals == 2
\* rates one evaluator can hold
MaxRates == 2
\* nested setter calls the stack holds before it overflows
MaxDepth == 3

(* ------------------------- program constants --------------------------- *)

\* quiet NaN: the value of an unset coefficient
NaN == 999999
\* size_t(-1): the index of an unlinked rate
npos == -1
\* universal gas constant, J/(kmol K), rounded to an integer
GasConstant == 8314
\* Pa per atm
OneAtm == 101325

Evals == 1 .. NumEvals
\* the evaluator that holds the copies of a handle whose parameters change
PropEvals == {1}
\* the null shared_ptr<MultiRateBase>
NullEval == 0
\* the null shared_ptr<Func1>
NullFunc == 0

(* --------------------------- double arithmetic ------------------------- *)

isnan(x) == x = NaN

\* x < y on doubles: false when either side is NaN
Less(x, y) == ~isnan(x) /\ ~isnan(y) /\ x < y

\* x / y on doubles, y a positive constant
Div(x, y) == IF isnan(x) THEN NaN ELSE x \div y

Mul(x, y) == IF isnan(x) \/ isnan(y) THEN NaN ELSE x * y

RECURSIVE Pow10(_)
Pow10(n) == IF n = 0 THEN 1 ELSE 10 * Pow10(n - 1)

\* x * 10^e, e a (possibly negative) decimal exponent
Scale(x, e) ==
    IF isnan(x) THEN NaN
    ELSE IF e >= 0 THEN x * Pow10(e) ELSE x \div Pow10(-e)

(* ------------------------------ AnyMap --------------------------------- *)

\* A parameter node: its keys (a function from key strings to values) and the
\* unit system attached to it: `qty` is the decimal exponent of the factor
\* from the node's default rate-coefficient unit to SI, `act` the factor from
\* the node's activation-energy unit to J/kmol.
AnyMap(keys, usys) == [keys |-> keys, usys |-> usys]

EmptyKeys == [k \in {} |-> 0]

hasKey(node, k) == k \in DOMAIN node.keys

getBool(node, k, default) == IF hasKey(node, k) THEN node.keys[k] ELSE default

\* rateNode[k] = v
SetKey(keys, k, v) == [x \in DOMAIN keys \cup {k} |-> IF x = k THEN v ELSE keys[x]]

\* a quantity whose conversion to the output unit system is deferred: the
\* value and the unit it is held in
Quantity(v, u) == [value |-> v, unit |-> u]

(* --------------------------- rate objects ------------------------------ *)

UnsetCheb == [Tmin |-> NaN, Tmax |-> NaN, Pmin |-> NaN, Pmax |-> NaN, coeffs |-> <<>>]

\* The fields of a rate object of any variant; a variant leaves the fields of
\* the other variants at their defaults.
BaseRate(type) ==
    [type |-> type,
     m_A |-> NaN, m_b |-> NaN, m_E |-> NaN,
     allow_negative_pre_exponential_factor |-> FALSE,
     rates |-> <<>>,
     cheb |-> UnsetCheb,
     m_ratefunc |-> NullFunc,
     units |-> 0,
     input |-> AnyMap(EmptyKeys, [qty |-> 0, act |-> 1]),
     m_evaluator |-> NullEval,
     m_index |-> npos]

\* ArrheniusRate::ArrheniusRate()
ArrheniusRate0 == BaseRate("Arrhenius")

\* ArrheniusRate::ArrheniusRate(double A, double b, double E)
ArrheniusRate3(A, b, E) ==
    [BaseRate("Arrhenius") EXCEPT !.m_A = A, !.m_b = b, !.m_E = Div(E, GasConstant)]

\* CustomFunc1Rate::CustomFunc1Rate()
CustomFunc1Rate0 == BaseRate("Custom")

(* ------------------------- ReactionRateBase ---------------------------- *)

\* ReactionRateBase::setParameters
Base_setParameters(r, node, rate_units) ==
    [r EXCEPT !.units = rate_units, !.input = node]

\* ReactionRateBase::linkEvaluator
linkEvaluator(r, index, evaluator) ==
    [r EXCEPT !.m_index = index, !.m_evaluator = evaluator]

\* releaseEvaluator that resets the evaluator and keeps the stored index
releaseEvaluator_KeepsIndex(r) ==
    [r EXCEPT !.m_evaluator = NullEval]

\* ReactionRateBase::releaseEvaluator
releaseEvaluator(r) ==
    [r EXCEPT !.m_index = npos, !.m_evaluator = NullEval]

\* index that returns m_index without looking at the evaluator
index_Unchecked(r) == [err |-> "none", ret |-> r.m_index]

\* ReactionRateBase::index: the index, or the CanteraError it throws
index(r) ==
    IF r.m_evaluator # NullEval
    THEN [err |-> "none", ret |-> r.m_index]
    ELSE [err |-> "CanteraError", ret |-> npos]

(* ------------------- Arrhenius (the shared primitive) ------------------ *)

\* UnitSystem::convert of a rate coefficient to the rate units
convert(A, usys, rate_units) == Scale(A, usys.qty - rate_units)

\* UnitSystem::convertActivationEnergy(Ea, "K"): E/R in Kelvin
convertActivationEnergy(Ea, usys) == Div(Mul(Ea, usys.act), GasConstant)

\* AnyValue(): the empty value
EmptyValue == EmptyKeys

\* Arrhenius::setParameters: an empty value leaves the triple unset
Arrhenius_setParameters(r, rate, usys, rate_units) ==
    IF DOMAIN rate = {}
    THEN [r EXCEPT !.m_A = NaN, !.m_b = NaN, !.m_E = NaN]
    ELSE [r EXCEPT !.m_A = convert(rate.A, usys, rate_units),
                   !.m_b = rate.b,
                   !.m_E = convertActivationEnergy(rate.Ea, usys)]

\* Arrhenius::getParameters: nothing is written for an unset triple
Arrhenius_getParameters(r, rate_units) ==
    IF isnan(r.m_A)
    THEN EmptyKeys
    ELSE [A |-> Quantity(r.m_A, rate_units), b |-> r.m_b, Ea |-> Quantity(r.m_E, "K")]

\* Arrhenius::preExponentialFactor
preExponentialFactor(r) == r.m_A

(* ----------------------------- ArrheniusRate --------------------------- *)

\* setParameters that returns early, the triple untouched, when rate-constant
\* is absent
ArrheniusRate_setParameters_KeepsTriple(r, node, rate_units) ==
    LET r2 == [r EXCEPT !.units = rate_units, !.input = node,
                        !.allow_negative_pre_exponential_factor =
                              IF "negative-A" \in DOMAIN node.keys
                              THEN node.keys["negative-A"] ELSE FALSE]
    IN IF "rate-constant" \notin DOMAIN node.keys
       THEN r2
       ELSE [r2 EXCEPT !.m_A = Scale(node.keys["rate-constant"].A, node.usys.qty - rate_units),
                       !.m_b = node.keys["rate-constant"].b,
                       !.m_E = Div(Mul(node.keys["rate-constant"].Ea, node.usys.act), GasConstant)]

\* ArrheniusRate::setParameters
ArrheniusRate_setParameters(r, node, rate_units) ==
    LET r1 == Base_setParameters(r, node, rate_units)
        r2 == [r1 EXCEPT !.allow_negative_pre_exponential_factor =
                              getBool(node, "negative-A", FALSE)]
    IN IF ~hasKey(node, "rate-constant")
       THEN Arrhenius_setParameters(r2, EmptyValue, node.usys, rate_units)
       ELSE Arrhenius_setParameters(r2, node.keys["rate-constant"], node.usys, rate_units)

\* ArrheniusRate::ArrheniusRate(const AnyMap& node, const Units& rate_units)
ArrheniusRateNode(node, rate_units) ==
    ArrheniusRate_setParameters(BaseRate("Arrhenius"), node, rate_units)

\* getParameters that writes negative-A whatever its value
ArrheniusRate_getParameters_AlwaysFlag(r, rateNode, rate_units) ==
    LET n1 == [x \in DOMAIN rateNode \cup {"negative-A"} |->
                 IF x = "negative-A" THEN r.allow_negative_pre_exponential_factor
                 ELSE rateNode[x]]
    IN IF ~isnan(r.m_A)
       THEN [x \in DOMAIN n1 \cup {"rate-constant"} |->
               IF x = "rate-constant"
               THEN [A |-> [value |-> r.m_A, unit |-> rate_units], b |-> r.m_b,
                     Ea |-> [value |-> r.m_E, unit |-> "K"]]
               ELSE n1[x]]
       ELSE n1

\* ArrheniusRate::getParameters: the keys of rateNode afterwards
ArrheniusRate_getParameters(r, rateNode, rate_units) ==
    LET n1 == IF r.allow_negative_pre_exponential_factor
              THEN SetKey(rateNode, "negative-A", TRUE)
              ELSE rateNode
        node == Arrhenius_getParameters(r, rate_units)
    IN IF DOMAIN node # {}
       THEN SetKey(n1, "rate-constant", node)
       ELSE n1

\* validate that throws on a negative A whatever the flag
ArrheniusRate_validate_IgnoresFlag(r) ==
    IF Less(r.m_A, 0) THEN "CanteraError" ELSE "none"

\* validate that tests the flag the wrong way round
ArrheniusRate_validate_FlagInverted(r) ==
    IF r.allow_negative_pre_exponential_factor /\ Less(r.m_A, 0)
    THEN "CanteraError"
    ELSE "none"

\* ArrheniusRate::validate: the error it throws, or "none"
ArrheniusRate_validate(r) ==
    IF ~r.allow_negative_pre_exponential_factor /\ Less(preExponentialFactor(r), 0)
    THEN "CanteraError"
    ELSE "none"

(* -------------------------------- Plog --------------------------------- *)

\* a pressure with its inline unit suffix, in Pa
ToPa(P) == IF P.unit = "atm" THEN Mul(P.value, OneAtm) ELSE P.value

\* the pairs (P, Arrhenius) in non-decreasing order of P, equal P in the
\* order given
RECURSIVE InsertByP(_, _)
InsertByP(s, x) ==
    IF s = <<>> THEN <<x>>
    ELSE IF x[1] < s[Len(s)][1]
         THEN Append(InsertByP(SubSeq(s, 1, Len(s) - 1), x), s[Len(s)])
         ELSE Append(s, x)

RECURSIVE SortByP(_)
SortByP(s) ==
    IF s = <<>> THEN <<>>
    ELSE InsertByP(SortByP(SubSeq(s, 1, Len(s) - 1)), s[Len(s)])

\* Plog::setRates: the table replaces the stored one
Plog_setRates(r, rates) == [r EXCEPT !.rates = SortByP(rates)]

\* Plog::setParameters
Plog_setParameters(r, rates, usys, rate_units) ==
    Plog_setRates(r,
        [i \in 1 .. Len(rates) |->
            <<ToPa(rates[i].P),
              [A |-> convert(rates[i].A, usys, rate_units),
               b |-> rates[i].b,
               E |-> convertActivationEnergy(rates[i].Ea, usys)]>>])

\* Plog::getParameters: nothing is written for an empty table
Plog_getParameters(r, rateNode, rate_units) ==
    IF r.rates = <<>>
    THEN rateNode
    ELSE SetKey(rateNode, "rate-constants",
            [i \in 1 .. Len(r.rates) |->
                [P |-> Quantity(r.rates[i][1], "Pa"),
                 A |-> Quantity(r.rates[i][2].A, rate_units),
                 b |-> r.rates[i][2].b,
                 Ea |-> Quantity(r.rates[i][2].E, "K")]])

\* PlogRate::PlogRate(rates)
PlogRate1(rates) == Plog_setRates(BaseRate("Plog"), rates)

\* PlogRate::setParameters
PlogRate_setParameters(r, node, rate_units) ==
    LET r1 == Base_setParameters(r, node, rate_units)
    IN IF ~hasKey(node, "rate-constants")
       THEN Plog_setParameters(r1, <<>>, node.usys, rate_units)
       ELSE Plog_setParameters(r1, node.keys["rate-constants"], node.usys, rate_units)

\* PlogRate::PlogRate(const AnyMap& node, const Units& rate_units)
PlogRateNode(node, rate_units) == PlogRate_setParameters(BaseRate("Plog"), node, rate_units)

\* PlogRate::getParameters
PlogRate_getParameters(r, rateNode, rate_units) ==
    Plog_getParameters(r, rateNode, rate_units)

(* ------------------------------ Chebyshev ------------------------------ *)

\* the matrix with x added to its (0,0) entry
AddC00(coeffs, x) ==
    IF coeffs = <<>> THEN coeffs
    ELSE [coeffs EXCEPT ![1] = [@ EXCEPT ![1] = @ + x]]

\* Chebyshev::setCoeffs
Chebyshev_setCoeffs(r, coeffs) == [r EXCEPT !.cheb.coeffs = coeffs]

\* Chebyshev::setParameters: an empty node leaves the rate unset; the unit
\* rescale of the rate adds log10(factor) to C00
Chebyshev_setParameters(r, node, usys, rate_units) ==
    IF DOMAIN node.keys = {}
    THEN [r EXCEPT !.cheb = UnsetCheb]
    ELSE [r EXCEPT !.cheb =
            [Tmin |-> node.keys["temperature-range"][1],
             Tmax |-> node.keys["temperature-range"][2],
             Pmin |-> ToPa(node.keys["pressure-range"][1]),
             Pmax |-> ToPa(node.keys["pressure-range"][2]),
             coeffs |-> AddC00(node.keys["data"], usys.qty - rate_units)]]

\* Chebyshev::getParameters: nothing is written for an unset rate; the data
\* carry the rate units their C00 is held in
Chebyshev_getParameters(r, rateNode, rate_units) ==
    IF r.cheb.coeffs = <<>>
    THEN rateNode
    ELSE SetKey(SetKey(SetKey(rateNode,
            "temperature-range", Quantity(<<r.cheb.Tmin, r.cheb.Tmax>>, "K")),
            "pressure-range", Quantity(<<r.cheb.Pmin, r.cheb.Pmax>>, "Pa")),
            "data", Quantity(r.cheb.coeffs, rate_units))

\* ChebyshevRate3::ChebyshevRate3(Tmin, Tmax, Pmin, Pmax, coeffs)
ChebyshevRate5(Tmin, Tmax, Pmin, Pmax, coeffs) ==
    [BaseRate("Chebyshev") EXCEPT !.cheb =
        [Tmin |-> Tmin, Tmax |-> Tmax, Pmin |-> Pmin, Pmax |-> Pmax, coeffs |-> coeffs]]

\* ChebyshevRate3::setParameters
ChebyshevRate3_setParameters(r, node, rate_units) ==
    LET r1 == Base_setParameters(r, node, rate_units)
    IN IF ~hasKey(node, "data")
       THEN Chebyshev_setParameters(r1, AnyMap(EmptyKeys, node.usys), node.usys, rate_units)
       ELSE Chebyshev_setParameters(r1, node, node.usys, rate_units)

\* ChebyshevRate3::ChebyshevRate3(const AnyMap& node, const Units& rate_units)
ChebyshevRate3Node(node, rate_units) ==
    ChebyshevRate3_setParameters(BaseRate("Chebyshev"), node, rate_units)

\* ChebyshevRate3::getParameters
ChebyshevRate3_getParameters(r, rateNode, rate_units) ==
    Chebyshev_getParameters(r, rateNode, rate_units)

\* ChebyshevRate3::coeffs
coeffs(r) == r.cheb.coeffs

\* ChebyshevRate3::validate: checks nothing
ChebyshevRate3_validate(r) == "none"

(* -------------------- variant dispatch (virtual calls) ----------------- *)

\* rate.setParameters(node, rate_units)
setParameters(r, node, rate_units) ==
    CASE r.type = "Arrhenius" -> ArrheniusRate_setParameters(r, node, rate_units)
      [] r.type = "Plog" -> PlogRate_setParameters(r, node, rate_units)
      [] r.type = "Chebyshev" -> ChebyshevRate3_setParameters(r, node, rate_units)

\* rate.getParameters(rateNode, rate_units)
getParameters(r, rateNode, rate_units) ==
    CASE r.type = "Arrhenius" -> ArrheniusRate_getParameters(r, rateNode, rate_units)
      [] r.type = "Plog" -> PlogRate_getParameters(r, rateNode, rate_units)
      [] r.type = "Chebyshev" -> ChebyshevRate3_getParameters(r, rateNode, rate_units)

\* ReactionRateBase::parameters(rate_units)
parameters(r, rate_units) == getParameters(r, EmptyKeys, rate_units)

\* ReactionRateBase::parameters()
parameters0(r) == getParameters(r, EmptyKeys, r.units)

\* rate.validate(equation)
validate(r) ==
    CASE r.type = "Arrhenius" -> ArrheniusRate_validate(r)
      [] r.type = "Chebyshev" -> ChebyshevRate3_validate(r)

(* ------------------- the handle and the evaluators' copies ------------- *)

\* A rate object is the handle, Handle, or the copy an evaluator e holds at
\* index i, <<e, i>>.  A world is the handle, the evaluators, and the state of
\* the call in progress: the number of forwarding levels entered and the
\* error that ended it.
Handle == <<0, 0>>

World(hh, evs) == [h |-> hh, ev |-> evs, depth |-> 0, err |-> "none"]

\* MultiRateBase::rate(index): the evaluator's copy at the index
rate(w, t) == IF t = Handle THEN w.h ELSE w.ev[t[1]][t[2] + 1]

Put(w, t, r) ==
    IF t = Handle THEN [w EXCEPT !.h = r]
    ELSE [w EXCEPT !.ev[t[1]][t[2] + 1] = r]

\* m_evaluator->rate(m_index) of a linked rate object
Linked(r) == r.m_evaluator # NullEval

Copy(r) == <<r.m_evaluator, r.m_index>>

\* MultiRate::add: appends a copy of the rate (its link included) and
\* returns the index of the copy
add(evs, e, r) == [evs EXCEPT ![e] = Append(@, r)]

\* MultiRate::replace: the copy at the index becomes a copy of the rate
replace(evs, e, i, r) == [evs EXCEPT ![e][i + 1] = r]

\* One forwarding level of a setter: the call on the evaluator's copy that
\* dynamic_cast<type&>(m_evaluator->rate(m_index)) selects.  `next` is the
\* world the nested call returns.
Enter(w) == [w EXCEPT !.depth = @ + 1]

CanEnter(w, r, type) ==
    IF w.depth >= MaxDepth THEN "stack-overflow"
    ELSE IF rate(w, Copy(r)).type # type THEN "bad_cast"
    ELSE "none"

\* ArrheniusRate::setPreExponentialFactor on the rate object t
RECURSIVE ArrheniusRate_setPreExponentialFactor(_, _, _)
ArrheniusRate_setPreExponentialFactor(w, t, A) ==
    LET w1 == Put(w, t, [rate(w, t) EXCEPT !.m_A = A])
        r == rate(w1, t)
    IN IF Linked(r)
       THEN IF CanEnter(w1, r, "Arrhenius") # "none"
            THEN [w1 EXCEPT !.err = CanEnter(w1, r, "Arrhenius")]
            ELSE ArrheniusRate_setPreExponentialFactor(Enter(w1), Copy(r), A)
       ELSE w1

\* ArrheniusRate::setTemperatureExponent on the rate object t
RECURSIVE ArrheniusRate_setTemperatureExponent(_, _, _)
ArrheniusRate_setTemperatureExponent(w, t, b) ==
    LET w1 == Put(w, t, [rate(w, t) EXCEPT !.m_b = b])
        r == rate(w1, t)
    IN IF Linked(r)
       THEN IF CanEnter(w1, r, "Arrhenius") # "none"
            THEN [w1 EXCEPT !.err = CanEnter(w1, r, "Arrhenius")]
            ELSE ArrheniusRate_setTemperatureExponent(Enter(w1), Copy(r), b)
       ELSE w1

\* setActivationEnergy that forwards the stored E/R in place of E
RECURSIVE ArrheniusRate_setActivationEnergy_ForwardsStored(_, _, _)
ArrheniusRate_setActivationEnergy_ForwardsStored(w, t, E) ==
    LET w1 == Put(w, t, [rate(w, t) EXCEPT !.m_E = Div(E, GasConstant)])
        r == rate(w1, t)
    IN IF Linked(r)
       THEN IF CanEnter(w1, r, "Arrhenius") # "none"
            THEN [w1 EXCEPT !.err = CanEnter(w1, r, "Arrhenius")]
            ELSE ArrheniusRate_setActivationEnergy_ForwardsStored(Enter(w1), Copy(r), r.m_E)
       ELSE w1

\* ArrheniusRate::setActivationEnergy on the rate object t
RECURSIVE ArrheniusRate_setActivationEnergy(_, _, _)
ArrheniusRate_setActivationEnergy(w, t, E) ==
    LET w1 == Put(w, t, [rate(w, t) EXCEPT !.m_E = Div(E, GasConstant)])
        r == rate(w1, t)
    IN IF Linked(r)
       THEN IF CanEnter(w1, r, "Arrhenius") # "none"
            THEN [w1 EXCEPT !.err = CanEnter(w1, r, "Arrhenius")]
            ELSE ArrheniusRate_setActivationEnergy(Enter(w1), Copy(r), E)
       ELSE w1

\* PlogRate::setRates on the rate object t
RECURSIVE PlogRate_setRates(_, _, _)
PlogRate_setRates(w, t, rates) ==
    LET w1 == Put(w, t, Plog_setRates(rate(w, t), rates))
        r == rate(w1, t)
    IN IF Linked(r)
       THEN IF CanEnter(w1, r, "Plog") # "none"
            THEN [w1 EXCEPT !.err = CanEnter(w1, r, "Plog")]
            ELSE PlogRate_setRates(Enter(w1), Copy(r), rates)
       ELSE w1

\* ChebyshevRate3::setCoeffs on the rate object t
RECURSIVE ChebyshevRate3_setCoeffs(_, _, _)
ChebyshevRate3_setCoeffs(w, t, cs) ==
    LET w1 == Put(w, t, Chebyshev_setCoeffs(rate(w, t), cs))
        r == rate(w1, t)
    IN IF Linked(r)
       THEN IF CanEnter(w1, r, "Chebyshev") # "none"
            THEN [w1 EXCEPT !.err = CanEnter(w1, r, "Chebyshev")]
            ELSE ChebyshevRate3_setCoeffs(Enter(w1), Copy(r), cs)
       ELSE w1

\* CustomFunc1Rate::setRateFunction on the rate object t
CustomFunc1Rate_setRateFunction(w, t, f) ==
    Put(w, t, [rate(w, t) EXCEPT !.m_ratefunc = f])

(* ------------------------------- inputs -------------------------------- *)

\* unit systems a node carries: SI, and mol / cal/mol based
SI == [qty |-> 0, act |-> 1]
UnitSystems == {SI, [qty |-> 3, act |-> 4184]}

\* rate units, as the decimal exponent of their factor to SI
RateUnits == {0, 3}

RateConstants == [A : {-2000, 2000}, b : {1}, Ea : {0, GasConstant}]

\* the keys of the nodes of an Arrhenius rate: negative-A absent, true or
\* false; rate-constant absent or given
ArrheniusKeys ==
    {EmptyKeys}
    \cup {[x \in {"negative-A"} |-> f] : f \in BOOLEAN}
    \cup {[x \in {"rate-constant"} |-> rc] : rc \in RateConstants}
    \cup {[x \in {"negative-A", "rate-constant"} |->
             IF x = "negative-A" THEN f ELSE rc] : f \in BOOLEAN, rc \in RateConstants}

PlogEntry(P, A) == [P |-> P, A |-> A, b |-> 1, Ea |-> GasConstant]

\* rate-constants lists with strictly increasing pressures
PlogLists ==
    {<<PlogEntry([value |-> 500, unit |-> "Pa"], A)>> : A \in {2000, 4000}}
    \cup {<<PlogEntry([value |-> 500, unit |-> "Pa"], 2000),
            PlogEntry([value |-> 1, unit |-> "atm"], A)>> : A \in {2000, 4000}}

PlogKeys ==
    {EmptyKeys} \cup {[x \in {"rate-constants"} |-> l] : l \in PlogLists}

Matrices == {<<<<1, 2>>>>, <<<<3, 4>>, <<5, 6>>>>}

ChebyshevFull(data) ==
    [x \in {"temperature-range", "pressure-range", "data"} |->
        CASE x = "temperature-range" -> <<290, 3000>>
          [] x = "pressure-range" -> <<[value |-> 1000, unit |-> "Pa"],
                                       [value |-> 100, unit |-> "atm"]>>
          [] x = "data" -> data]

ChebyshevKeys ==
    {EmptyKeys}
    \cup {[x \in {"temperature-range"} |-> <<290, 3000>>]}
    \cup {ChebyshevFull(d) : d \in Matrices}

KeysOf(type) ==
    CASE type = "Arrhenius" -> ArrheniusKeys
      [] type = "Plog" -> PlogKeys
      [] type = "Chebyshev" -> ChebyshevKeys
      [] OTHER -> {}

\* arguments of the setters
AValues == {-2, 2}
bValues == {1}
EValues == {GasConstant}
Tables ==
    {<<<<500, [A |-> 2, b |-> 1, E |-> 1]>>>>,
     <<<<900, [A |-> 2, b |-> 1, E |-> 1]>>, <<500, [A |-> 4, b |-> 0, E |-> 0]>>>>}
Funcs == {1, 2}
Equations == {"O + H2 <=> H + OH"}

(* ------------------------------- actions ------------------------------- *)

\* the outcome of the last call on the handle
Call(op, err, ret, out, depth) ==
    [op |-> op, err |-> err, ret |-> ret, out |-> out, depth |-> depth]

\* a stack overflow ends the process
Running == call.err # "stack-overflow"

Len0(e) == Len(ev[e])

SetParameters(node, rate_units) ==
    /\ Running
    /\ node.keys \in KeysOf(h.type)
    /\ h' = setParameters(h, node, rate_units)
    /\ call' = Call("setParameters", "none", npos, EmptyKeys, 0)
    /\ UNCHANGED <<ev, lastLink>>

GetParameters(rate_units) ==
    /\ Running
    /\ h.type # "Custom"
    /\ call' = Call("getParameters", "none", npos, parameters(h, rate_units), 0)
    /\ UNCHANGED <<h, ev, lastLink>>

Parameters ==
    /\ Running
    /\ h.type # "Custom"
    /\ call' = Call("parameters", "none", npos, parameters0(h), 0)
    /\ UNCHANGED <<h, ev, lastLink>>

Validate(equation) ==
    /\ Running
    /\ h.type \in {"Arrhenius", "Chebyshev"}
    /\ call' = Call("validate", validate(h), npos, EmptyKeys, 0)
    /\ UNCHANGED <<h, ev, lastLink>>

\* the caller links the handle to an index the evaluator's add returned
LinkEvaluator(i, e) ==
    /\ Running
    /\ i < Len0(e)
    /\ h' = linkEvaluator(h, i, e)
    /\ call' = Call("linkEvaluator", "none", npos, EmptyKeys, 0)
    /\ lastLink' = [op |-> "link", e |-> e, i |-> i]
    /\ UNCHANGED ev

ReleaseEvaluator ==
    /\ Running
    /\ h' = releaseEvaluator(h)
    /\ call' = Call("releaseEvaluator", "none", npos, EmptyKeys, 0)
    /\ lastLink' = [op |-> "release", e |-> h.m_evaluator, i |-> h.m_index]
    /\ UNCHANGED ev

Index ==
    /\ Running
    /\ call' = Call("index", index(h).err, index(h).ret, EmptyKeys, 0)
    /\ UNCHANGED <<h, ev, lastLink>>

Add(e) ==
    /\ Running
    /\ Len0(e) < MaxRates
    /\ ev' = add(ev, e, h)
    /\ call' = Call("add", "none", Len0(e), EmptyKeys, 0)
    /\ UNCHANGED <<h, lastLink>>

Replace(e, i) ==
    /\ Running
    /\ i < Len0(e)
    /\ ev' = replace(ev, e, i, h)
    /\ call' = Call("replace", "none", npos, EmptyKeys, 0)
    /\ UNCHANGED <<h, lastLink>>

\* a setter called on the handle ends in the world w
Setter(op, w) ==
    /\ h' = w.h
    /\ ev' = w.ev
    /\ call' = Call(op, w.err, npos, EmptyKeys, w.depth)
    /\ UNCHANGED lastLink

SetPreExponentialFactor(A) ==
    /\ Running
    /\ h.type = "Arrhenius"
    /\ Setter("setPreExponentialFactor",
              ArrheniusRate_setPreExponentialFactor(World(h, ev), Handle, A))

SetTemperatureExponent(b) ==
    /\ Running
    /\ h.type = "Arrhenius"
    /\ Setter("setTemperatureExponent",
              ArrheniusRate_setTemperatureExponent(World(h, ev), Handle, b))

SetActivationEnergy(E) ==
    /\ Running
    /\ h.type = "Arrhenius"
    /\ Setter("setActivationEnergy",
              ArrheniusRate_setActivationEnergy(World(h, ev), Handle, E))

SetRates(rates) ==
    /\ Running
    /\ h.type = "Plog"
    /\ Setter("setRates", PlogRate_setRates(World(h, ev), Handle, rates))

SetCoeffs(cs) ==
    /\ Running
    /\ h.type = "Chebyshev"
    /\ Setter("setCoeffs", ChebyshevRate3_setCoeffs(World(h, ev), Handle, cs))

SetRateFunction(f) ==
    /\ Running
    /\ h.type = "Custom"
    /\ Setter("setRateFunction", CustomFunc1Rate_setRateFunction(World(h, ev), Handle, f))

(* ---------------------------- specifications --------------------------- *)

NoCall == Call("construct", "none", npos, EmptyKeys, 0)

\* lastLink is the latest linkEvaluator or releaseEvaluator call on the handle:
\* the evaluator and index a link was given, or those a release cleared
NoLink == [op |-> "none", e |-> NullEval, i |-> npos]

\* ArrheniusRate::ArrheniusRate(const Arrhenius& arr, bool allow_negative_A)
ArrheniusRateArr(arr, allow_negative_A) ==
    [BaseRate("Arrhenius") EXCEPT !.m_A = arr.A, !.m_b = arr.b, !.m_E = arr.E,
        !.allow_negative_pre_exponential_factor = allow_negative_A]

\* the rates the constructors build
Constructed ==
    {ArrheniusRate0, CustomFunc1Rate0}
    \cup {ArrheniusRate3(A, 0, 0) : A \in {-2, 4}}
    \cup {ArrheniusRateArr([A |-> A, b |-> 0, E |-> 0], TRUE) : A \in {-2, 4}}
    \cup {PlogRate1(t) : t \in Tables}
    \cup {ChebyshevRate5(290, 3000, 1000, 100000, m) : m \in Matrices}

InitWith(rates) ==
    /\ h \in rates
    /\ ev = [e \in Evals |-> <<>>]
    /\ call = NoCall
    /\ lastLink = NoLink

\* the evaluators' operations and the link, on the evaluators es
LinkNext(es) ==
    \/ \E e \in es : Add(e)
    \/ \E e \in es, i \in 0 .. MaxRates - 1 : Replace(e, i)
    \/ \E e \in es, i \in 0 .. MaxRates - 1 : LinkEvaluator(i, e)
    \/ ReleaseEvaluator

\* the setters of the variants that have parameters
SetterNext ==
    \/ \E A \in AValues : SetPreExponentialFactor(A)
    \/ \E b \in bValues : SetTemperatureExponent(b)
    \/ \E E \in EValues : SetActivationEnergy(E)
    \/ \E t \in Tables : SetRates(t)
    \/ \E m \in Matrices : SetCoeffs(m)

\* Propagation: a handle linked to evaluator copies is mutated by its setters.
Init ==
    InitWith({ArrheniusRate3(-2, 0, 0), CustomFunc1Rate0}
             \cup {PlogRate1(t) : t \in Tables}
             \cup {ChebyshevRate5(290, 3000, 1000, 100000, m) : m \in Matrices})

Next ==
    \/ LinkNext(PropEvals)
    \/ SetterNext
    \/ \E f \in Funcs : SetRateFunction(f)

Spec == Init /\ [][Next]_vars

\* The link protocol: linking, releasing, querying and validating a handle.
\* Every evaluator has been given MaxRates copies of the rate before the
\* first link.
Filled(r) == [e \in Evals |-> [i \in 1 .. MaxRates |-> r]]

InitLink ==
    /\ h \in Constructed
    /\ ev = Filled(h)
    /\ call = NoCall
    /\ lastLink = NoLink

NextLink ==
    \/ \E e \in Evals, i \in 0 .. MaxRates - 1 : LinkEvaluator(i, e)
    \/ ReleaseEvaluator
    \/ Index
    \/ \E eq \in Equations : Validate(eq)

SpecLink == InitLink /\ [][NextLink]_vars

\* Configuration of a linked handle from parameter nodes.
ConfigNodes ==
    {AnyMap(k, SI) :
        k \in {EmptyKeys}
               \cup {[x \in {"rate-constant"} |-> rc] : rc \in RateConstants}
               \cup {[x \in {"rate-constants"} |-> l] : l \in PlogLists}
               \cup {ChebyshevFull(d) : d \in Matrices}}

InitConfig ==
    InitWith({ArrheniusRate0, ArrheniusRate3(-2, 0, 0)}
             \cup {PlogRate1(t) : t \in Tables}
             \cup {ChebyshevRate5(290, 3000, 1000, 100000, m) : m \in Matrices})

NextConfig ==
    \/ LinkNext(PropEvals)
    \/ \E node \in ConfigNodes : SetParameters(node, 0)

SpecConfig == InitConfig /\ [][NextConfig]_vars

\* Parameters: an unlinked handle is configured, mutated, validated and
\* serialized.
AllNodes ==
    {AnyMap(k, u) : k \in ArrheniusKeys \cup PlogKeys \cup ChebyshevKeys, u \in UnitSystems}

\* the rates of the constructors from a node, with and without rate units
NodeConstructed ==
    {ArrheniusRateNode(AnyMap([x \in {"rate-constant"} |-> rc], SI), u) :
        rc \in RateConstants, u \in RateUnits}
    \cup {PlogRateNode(AnyMap([x \in {"rate-constants"} |-> l], SI), 0) : l \in PlogLists}
    \cup {ChebyshevRate3Node(AnyMap(ChebyshevFull(d), SI), 0) : d \in Matrices}

InitParams == InitWith((Constructed \ {CustomFunc1Rate0}) \cup NodeConstructed)

NextParams ==
    \/ \E node \in AllNodes, u \in RateUnits : SetParameters(node, u)
    \/ \E u \in RateUnits : GetParameters(u)
    \/ Parameters
    \/ \E eq \in Equations : Validate(eq)
    \/ SetterNext

SpecParams == InitParams /\ [][NextParams]_vars

(* ------------------------------- claims -------------------------------- *)

SetterOps ==
    {"setPreExponentialFactor", "setTemperatureExponent", "setActivationEnergy",
     "setRates", "setCoeffs"}

\* the evaluator's copy the handle is linked to
HandleCopy == rate(World(h, ev), Copy(h))

\* the parameter values of a rate: A, b, E/R, rate table, coefficient matrix
ParamsOf(r) ==
    [A |-> r.m_A, b |-> r.m_b, E |-> r.m_E, rates |-> r.rates, coeffs |-> coeffs(r)]

InSync == Linked(h) /\ HandleCopy.type = h.type /\ ParamsOf(HandleCopy) = ParamsOf(h)

\* C1: when the handle is linked and the evaluator's copy at its index holds
\* the handle's parameter values, a call of setPreExponentialFactor,
\* setTemperatureExponent, setActivationEnergy, setRates or setCoeffs on the
\* handle leaves the copy holding the handle's parameter values again; so
\* they stay equal over any sequence of these setters.
C1_LinkPropagation == [][(InSync /\ call'.op \in SetterOps) => InSync']_vars

\* a setter has forwarded a value to the copy of a linked handle
C1_Witness ==
    /\ call.op \in SetterOps
    /\ call.err = "none"
    /\ call.depth = 1
    /\ InSync

\* C2: setParameters on a linked handle with a node that changes the
\* handle's coefficients leaves the evaluator's copy at the stored index with
\* the new coefficients.
C2_SetParametersPropagates ==
    [][(call'.op = "setParameters" /\ Linked(h) /\ ParamsOf(h') # ParamsOf(h))
          => ParamsOf(HandleCopy)' = ParamsOf(h')]_vars

\* C3: setRateFunction(f) on a linked CustomFunc1Rate stores f in the handle
\* and in the evaluator's copy at the stored index.
C3_RateFunctionForwarded ==
    (call.op = "setRateFunction" /\ Linked(h))
        => (h.m_ratefunc = HandleCopy.m_ratefunc)

\* C4: index() throws exactly when the latest of the linkEvaluator and
\* releaseEvaluator calls on the handle is not a link (none was made, or the
\* latest is a release); otherwise it returns the index of the latest link,
\* and the handle refers to the evaluator of that link and to no other.
C4_IndexOfLatestLink ==
    /\ h.m_evaluator = (IF lastLink.op = "link" THEN lastLink.e ELSE NullEval)
    /\ call.op = "index" =>
          /\ (call.err = "CanteraError") <=> (lastLink.op # "link")
          /\ lastLink.op = "link" => (call.err = "none" /\ call.ret = lastLink.i)

\* index() has returned the index of a link to the last slot of the last
\* evaluator
C4_Witness ==
    /\ call.op = "index"
    /\ call.err = "none"
    /\ call.ret = MaxRates - 1
    /\ lastLink.op = "link"
    /\ lastLink.e = NumEvals

\* C5: releaseEvaluator on any rate state leaves no evaluator and no valid
\* index, throws nothing, and a second releaseEvaluator leaves that state as
\* it is.
C5_ReleaseIdempotent ==
    LET r1 == releaseEvaluator(h)
    IN /\ r1.m_evaluator = NullEval
       /\ r1.m_index = npos
       /\ index(r1).err = "CanteraError"
       /\ releaseEvaluator(r1) = r1
       /\ call.op = "releaseEvaluator" => (h = r1 /\ call.err = "none")

\* releaseEvaluator has cleared the link of a linked handle
C5_Witness ==
    /\ call.op = "releaseEvaluator"
    /\ lastLink.op = "release"
    /\ lastLink.e # NullEval
    /\ lastLink.i # npos
    /\ ~Linked(h)

\* C6: ArrheniusRate::validate throws exactly when the pre-exponential
\* factor is negative and allow_negative_pre_exponential_factor is false, and
\* whether it throws or not the handle (coefficients, flag, link) and the
\* evaluators are as before the call.
C6_ValidateThrowsIffNegative ==
    [][(call'.op = "validate" /\ h.type = "Arrhenius") =>
          /\ (call'.err = "CanteraError") <=>
                (Less(h.m_A, 0) /\ ~h.allow_negative_pre_exponential_factor)
          /\ call'.err \in {"none", "CanteraError"}
          /\ h' = h
          /\ ev' = ev]_vars

\* validate has thrown on a linked handle with a negative A
C6_Witness ==
    /\ call.op = "validate"
    /\ call.err = "CanteraError"
    /\ h.type = "Arrhenius"
    /\ Linked(h)

\* x >= y on doubles: false when either side is NaN
Geq(x, y) == ~isnan(x) /\ ~isnan(y) /\ x >= y

ValidatedWithoutFlag ==
    /\ h.type = "Arrhenius"
    /\ call.op = "validate"
    /\ call.err = "none"
    /\ ~h.allow_negative_pre_exponential_factor

\* C7 as stated: when allow_negative_A is false and validate has returned
\* without error on the current state, A >= 0.
C7_ValidatedNonNegative == ValidatedWithoutFlag => Geq(h.m_A, 0)

\* C7 as amended: when allow_negative_A is false and validate has returned
\* without error on the current state, A is not negative: A >= 0, or A is
\* NaN (the rate is unset).
C7_ValidatedNotNegative == ValidatedWithoutFlag => (Geq(h.m_A, 0) \/ isnan(h.m_A))

\* validate has accepted a rate that a setter gave a positive A
C7_Witness == ValidatedWithoutFlag /\ h.m_A = 2

\* a rate whose Arrhenius triple is unset
Unset(r) == isnan(r.m_A)

\* C8: ArrheniusRate::setParameters with a node that has no rate-constant
\* throws nothing and leaves the coefficients unset; ArrheniusRate::
\* getParameters writes negative-A, with the value true, exactly when the
\* flag is true, and rate-constant exactly when the coefficients are set, so
\* that an unset rate with the flag false gives the empty node.
C8_UnsetAndEmittedKeys ==
    h.type = "Arrhenius" =>
       /\ (call.op = "setParameters" /\ ~hasKey(h.input, "rate-constant")) =>
             /\ call.err = "none"
             /\ isnan(h.m_A) /\ isnan(h.m_b) /\ isnan(h.m_E)
       /\ call.op = "getParameters" =>
             /\ ("negative-A" \in DOMAIN call.out) <=> h.allow_negative_pre_exponential_factor
             /\ "negative-A" \in DOMAIN call.out => (call.out["negative-A"] = TRUE)
             /\ ("rate-constant" \in DOMAIN call.out) <=> ~Unset(h)
             /\ (Unset(h) /\ ~h.allow_negative_pre_exponential_factor) => (call.out = EmptyKeys)

\* getParameters has given the empty node for a rate that setParameters left
\* unset
C8_Witness ==
    /\ h.type = "Arrhenius"
    /\ call.op = "getParameters"
    /\ hasKey(h.input, "negative-A")
    /\ ~hasKey(h.input, "rate-constant")
    /\ Unset(h)
    /\ call.out = EmptyKeys

\* The node in normal form: every scalar with units converted as
\* setParameters converts it and held as the quantity getParameters writes.
Normalize(keys, usys, rate_units) ==
    [k \in DOMAIN keys |->
        CASE k = "rate-constant" ->
               [A |-> Quantity(convert(keys[k].A, usys, rate_units), rate_units),
                b |-> keys[k].b,
                Ea |-> Quantity(convertActivationEnergy(keys[k].Ea, usys), "K")]
          [] k = "rate-constants" ->
               [i \in 1 .. Len(keys[k]) |->
                   [P |-> Quantity(ToPa(keys[k][i].P), "Pa"),
                    A |-> Quantity(convert(keys[k][i].A, usys, rate_units), rate_units),
                    b |-> keys[k][i].b,
                    Ea |-> Quantity(convertActivationEnergy(keys[k][i].Ea, usys), "K")]]
          [] k = "temperature-range" -> Quantity(keys[k], "K")
          [] k = "pressure-range" -> Quantity(<<ToPa(keys[k][1]), ToPa(keys[k][2])>>, "Pa")
          [] k = "data" -> Quantity(AddC00(keys[k], usys.qty - rate_units), rate_units)
          [] OTHER -> keys[k]]

\* the valid parameter nodes of a variant: a Plog node has its rate-constants,
\* a Chebyshev node its ranges and data
ValidKeys(type) ==
    CASE type = "Arrhenius" -> ArrheniusKeys
      [] type = "Plog" -> PlogKeys \ {EmptyKeys}
      [] type = "Chebyshev" -> {ChebyshevFull(d) : d \in Matrices}

\* the keys without a negative-A entry whose value is false
WithoutFalseFlag(keys) ==
    [k \in {x \in DOMAIN keys : ~(x = "negative-A" /\ keys[x] = FALSE)} |-> keys[k]]

\* getParameters(U) is called in the state that setParameters(N, U), N a
\* valid node, has just left
RoundTripStep ==
    /\ call.op = "setParameters"
    /\ h.input.keys \in ValidKeys(h.type)
    /\ GetParameters(h.units)

\* C9 as stated: whatever was done to the rate before, setParameters(N, U)
\* followed by getParameters(U) gives N in normal form, for every valid N
\* and every U.
C9_RoundTrip ==
    [][RoundTripStep =>
          call'.out = Normalize(h.input.keys, h.input.usys, h.units)]_vars

\* C9 as amended: whatever was done to the rate before, setParameters(N, U)
\* followed by getParameters(U) gives N in normal form, except that an entry
\* negative-A: false of N is not written back.
C9_RoundTripButFalseFlag ==
    [][RoundTripStep =>
          call'.out = WithoutFalseFlag(Normalize(h.input.keys, h.input.usys, h.units))]_vars

\* getParameters has given back, converted, the node with negative-A and
\* rate-constant that the handle was configured from
C9_Witness ==
    /\ call.op = "getParameters"
    /\ hasKey(h.input, "negative-A")
    /\ hasKey(h.input, "rate-constant")
    /\ h.input.usys # SI
    /\ call.out = Normalize(h.input.keys, h.input.usys, h.units)

\* C10: every setter call on a linked rate returns after forwarding one
\* level: the setter applied to the evaluator's copy does not forward again,
\* whatever link the copy carries.
C10_ForwardsOneLevel ==
    call.op \in SetterOps => (call.err # "stack-overflow" /\ call.depth <= 1)

====
